---- MODULE Spec2Model ----
(***************************************************************************)
(* Sender side of the HPKE request/response exchange of                    *)
(* cc/crypto/hpke/sender_context.cc: SetUpBaseSender, SenderRequestContext *)
(* (Seal, destructor) and SenderResponseContext (Open, destructor).        *)
(*                                                                         *)
(* The BoringSSL primitives the file calls (EVP_HPKE_CTX and EVP_AEAD_CTX)  *)
(* are modelled symbolically: a ciphertext is a sequence of bytes that     *)
(* records the key, nonce, position and content it was made from, and      *)
(* opening recomputes the sealing and compares.                            *)
(***************************************************************************)
EXTENDS Integers, Sequences, FiniteSets, TLC

VARIABLES
  pc,                       \* position of the one SetUpBaseSender call
  recipient_public_key,     \* serialized_recipient_public_key of the call
  info,                     \* info of the call
  hpke,                     \* the library's EVP_HPKE_CTX object
  aead,                     \* the library's EVP_AEAD_CTX object
  hpke_sender_context,      \* local std::unique_ptr<EVP_HPKE_CTX>
  aead_response_context,    \* local std::unique_ptr<EVP_AEAD_CTX>
  encap_public_key_info,    \* local KeyInfo
  response_key,             \* local KeyInfo
  response_nonce,           \* local std::vector<uint8_t>
  sender_hpke_info,         \* local SenderContext
  calls,                    \* primitives invoked by SetUpBaseSender, in order
  result,                   \* the StatusOr<SenderContext> the caller holds
  sealLog,                  \* the Seal calls made so far, with what they returned
  openLog                   \* the Open calls made so far, with what they returned

vars == <<pc, recipient_public_key, info, hpke, aead, hpke_sender_context,
          aead_response_context, encap_public_key_info, response_key,
          response_nonce, sender_hpke_info, calls, result, sealLog, openLog>>

---------------------------------------------------------------------------
\* Bounds of the model.

\* The value at which the HPKE sequence counter is exhausted (UINT64_MAX in
\* the library, scaled down).
SeqMax == 2
\* Seal and Open calls explored on one SenderContext.
MaxCalls == 3

---------------------------------------------------------------------------
\* Program constants.

kAeadAlgorithmKeySizeBytes == 32
kAeadNonceSizeBytes == 12
\* Library constants, in model bytes: an X25519 public value is one model
\* byte, the encapsulated-key buffer holds two, an AES-GCM tag is two.
X25519_PUBLIC_VALUE_LEN == 1
EVP_HPKE_MAX_ENC_LENGTH == 2
TagLen == 2

NULL == "NULL"
HPKE_H == "hpke_ctx"
AEAD_H == "aead_ctx"

\* Inputs.
RecipientPrivateKeys == {1, 2}
EphemeralPrivateKeys == {11}
Pub(priv) == <<priv + 100>>
EmptyKey == <<>>
InvalidKey == <<0>>
RecipientKeyInputs == {EmptyKey, InvalidKey} \cup {Pub(r) : r \in RecipientPrivateKeys}
InfoInputs == {<<>>, <<7>>}
Plaintexts == {<<>>, <<5>>}
AssociatedData == {<<>>, <<9>>}

Zeros(n) == [i \in 1..n |-> 0]

---------------------------------------------------------------------------
\* absl::Status / absl::StatusOr values.

InvalidArgumentError(message) == [code |-> "InvalidArgument", message |-> message]
AbortedError(message) == [code |-> "Aborted", message |-> message]
\* A StatusOr holding an error (empty is the value-less placeholder) or a value.
ErrorResult(status, empty) ==
  [code |-> status.code, message |-> status.message, has_value |-> FALSE, value |-> empty]
OkResult(v) == [code |-> "OK", message |-> "", has_value |-> TRUE, value |-> v]

---------------------------------------------------------------------------
\* The primitive library (openssl/hpke.h, openssl/aead.h), symbolically.

\* X25519: the shared secret of a private key and a peer public value.
DH(priv, pub) == {priv, pub[1] - 100}
ValidPublicKey(key) == Len(key) = X25519_PUBLIC_VALUE_LEN /\ key # InvalidKey

\* The HPKE key schedule: what both sides derive from the shared secret and info.
NoSecret == [dh |-> {}, info |-> <<>>]
KeySchedule(dh, info_bytes) == [dh |-> dh, info |-> info_bytes]

\* len bytes derived from a secret under a label; xor is the value XORed in.
Derived(secret, label, len) == [secret |-> secret, label |-> label, len |-> len, xor |-> 0]
ZeroBytes(len) == Derived(NoSecret, "zero", len)

\* One AEAD sealing: Len(pt) encrypted bytes, then TagLen tag bytes.
AeadSeal(key, nonce, pt, ad) ==
  [i \in 1..(Len(pt) + TagLen) |->
     IF i <= Len(pt)
     THEN [t |-> "c", key |-> key, nonce |-> nonce, i |-> i, v |-> pt[i],
           ad |-> <<>>, pt |-> <<>>]
     ELSE [t |-> "t", key |-> key, nonce |-> nonce, i |-> i - Len(pt), v |-> 0,
           ad |-> ad, pt |-> pt]]

NoHpke == [st |-> "none", secret |-> NoSecret, seq |-> 0, exports |-> {},
           frees |-> 0, deletes |-> 0]
NoAead == [st |-> "none", key |-> ZeroBytes(0), frees |-> 0, deletes |-> 0]

EVP_HPKE_CTX_new(ok) ==
  [ok |-> ok, ctx |-> IF ok THEN [NoHpke EXCEPT !.st = "new"] ELSE NoHpke]

EVP_HPKE_CTX_setup_sender(ctx, out_enc, max_enc, peer_public_key, info_bytes, eph, fault) ==
  IF fault \/ ~ValidPublicKey(peer_public_key) \/ max_enc < X25519_PUBLIC_VALUE_LEN
  THEN [ok |-> FALSE, ctx |-> ctx, out_enc |-> out_enc, out_enc_len |-> 0]
  ELSE [ok |-> TRUE,
        ctx |-> [ctx EXCEPT !.st = "ready",
                            !.secret = KeySchedule(DH(eph, peer_public_key), info_bytes),
                            !.seq = 0],
        out_enc |-> Pub(eph) \o SubSeq(out_enc, X25519_PUBLIC_VALUE_LEN + 1, Len(out_enc)),
        out_enc_len |-> X25519_PUBLIC_VALUE_LEN]

EVP_HPKE_CTX_export(ctx, out, secret_len, context, fault) ==
  IF fault \/ ctx.st # "ready"
  THEN [ok |-> FALSE, ctx |-> ctx, out |-> out]
  ELSE [ok |-> TRUE, ctx |-> [ctx EXCEPT !.exports = @ \cup {context}],
        out |-> Derived(ctx.secret, context, secret_len)]

EVP_HPKE_CTX_max_overhead(ctx) == TagLen

HpkeNonce(secret, seq) == [Derived(secret, "base_nonce", kAeadNonceSizeBytes) EXCEPT !.xor = seq]
HpkeKey(secret) == Derived(secret, "key", kAeadAlgorithmKeySizeBytes)

EVP_HPKE_CTX_seal(ctx, out, max_out_len, in, ad) ==
  IF ctx.st # "ready" \/ ctx.seq = SeqMax \/ max_out_len < Len(in) + TagLen
  THEN [ok |-> FALSE, ctx |-> ctx, out |-> out, out_len |-> 0]
  ELSE LET ct == AeadSeal(HpkeKey(ctx.secret), HpkeNonce(ctx.secret, ctx.seq), in, ad)
       IN [ok |-> TRUE, ctx |-> [ctx EXCEPT !.seq = @ + 1],
           out |-> ct \o SubSeq(out, Len(ct) + 1, Len(out)), out_len |-> Len(ct)]

EVP_AEAD_CTX_new(key, key_len, tag_len, ok) ==
  IF ok /\ key_len = kAeadAlgorithmKeySizeBytes /\ key.len = key_len
  THEN [ok |-> TRUE, ctx |-> [NoAead EXCEPT !.st = "live", !.key = key]]
  ELSE [ok |-> FALSE, ctx |-> NoAead]

EVP_AEAD_CTX_open(ctx, out, max_out_len, nonce, nonce_len, in, ad) ==
  LET n == Len(in) - TagLen
      pt == [i \in 1..n |-> in[i].v]
  IN IF /\ ctx.st = "live"
        /\ nonce_len = kAeadNonceSizeBytes
        /\ n >= 0
        /\ n <= max_out_len
        /\ in = AeadSeal(ctx.key, nonce, pt, ad)
     THEN [ok |-> TRUE, out |-> pt \o SubSeq(out, n + 1, Len(out)), out_len |-> n]
     ELSE [ok |-> FALSE, out |-> Zeros(Len(out)), out_len |-> 0]

\* EVP_HPKE_CTX_free / EVP_AEAD_CTX_free.
LibraryFree(obj) == [obj EXCEPT !.st = "freed", !.frees = @ + 1]

\* The recipient side: the context set up from the encapsulated key, the
\* recipient private key and info, opening the message numbered seq.
RecipientSecret(enc, recipient_private_key, info_bytes) ==
  KeySchedule(DH(recipient_private_key, enc), info_bytes)
RecipientOpen(secret, seq, ct, ad) ==
  LET n == Len(ct) - TagLen
      pt == [i \in 1..n |-> ct[i].v]
  IN IF n >= 0 /\ ct = AeadSeal(HpkeKey(secret), HpkeNonce(secret, seq), pt, ad)
     THEN OkResult(pt)
     ELSE ErrorResult(AbortedError("open failed"), <<>>)

---------------------------------------------------------------------------
\* The objects of sender_context.cc.

NoRequestContext == [alive |-> FALSE, hpke_context_ |-> NULL]
NoResponseContext == [alive |-> FALSE, aead_response_context_ |-> NULL,
                      response_nonce_ |-> ZeroBytes(0)]
NoSenderContext == [encap_public_key |-> <<>>,
                    sender_request_context |-> NoRequestContext,
                    sender_response_context |-> NoResponseContext]
\* The constructors of the two contexts: each takes over what it is given.
SenderRequestContextNew(hpke_context) == [alive |-> TRUE, hpke_context_ |-> hpke_context]
SenderResponseContextNew(aead_context, nonce) ==
  [alive |-> TRUE, aead_response_context_ |-> aead_context, response_nonce_ |-> nonce]
NoResult == [code |-> "none", message |-> "", has_value |-> FALSE, value |-> NoSenderContext]

\* std::vector::resize.
Resize(v, n) == IF n <= Len(v) THEN SubSeq(v, 1, n) ELSE v \o Zeros(n - Len(v))

\* The destructor of a std::unique_ptr<T> (default deleter) holding p: delete p.
UniquePtrDestroy(p, obj) ==
  IF p = NULL THEN obj ELSE [obj EXCEPT !.st = "deleted", !.deletes = @ + 1]

\* delete of memory the library allocated is undefined: the call may go on to
\* return, or the process may abort in the allocator.
DeleteOutcomes(h, a) ==
  IF h = NULL /\ a = NULL THEN {"returns"} ELSE {"returns", "aborts"}

Init ==
  /\ pc = "start"
  /\ recipient_public_key \in RecipientKeyInputs
  /\ info \in InfoInputs
  /\ hpke = NoHpke
  /\ aead = NoAead
  /\ hpke_sender_context = NULL
  /\ aead_response_context = NULL
  /\ encap_public_key_info = [key_bytes |-> <<>>, key_size |-> 0]
  /\ response_key = [key_bytes |-> ZeroBytes(0), key_size |-> 0]
  /\ response_nonce = ZeroBytes(0)
  /\ sender_hpke_info = NoSenderContext
  /\ calls = <<>>
  /\ result = NoResult
  /\ sealLog = <<>>
  /\ openLog = <<>>

\* An early `return absl::...Error(...)` of SetUpBaseSender: the locals go out
\* of scope and the status becomes the caller's result.
EarlyReturn(status) ==
  /\ hpke' = UniquePtrDestroy(hpke_sender_context, hpke)
  /\ aead' = UniquePtrDestroy(aead_response_context, aead)
  /\ hpke_sender_context' = NULL
  /\ aead_response_context' = NULL
  /\ sender_hpke_info' = NoSenderContext
  /\ \E outcome \in DeleteOutcomes(hpke_sender_context, aead_response_context) :
       /\ pc' = IF outcome = "returns" THEN "done" ELSE "crashed"
       /\ result' = IF outcome = "returns" THEN ErrorResult(status, NoSenderContext)
                    ELSE NoResult

\* Mutant of CheckKey: the empty-key check is missing.
CheckKey_NoEmptyCheck ==
  /\ pc = "start"
  /\ encap_public_key_info' = [key_bytes |-> Zeros(EVP_HPKE_MAX_ENC_LENGTH), key_size |-> 0]
  /\ pc' = "ctx_new"
  /\ UNCHANGED <<hpke, aead, hpke_sender_context, aead_response_context,
                 sender_hpke_info, result>>
  /\ UNCHANGED <<recipient_public_key, info, response_key, response_nonce, calls,
                 sealLog, openLog>>

\* SetUpBaseSender, lines 99-112: the locals and the empty-key check.
CheckKey ==
  /\ pc = "start"
  /\ encap_public_key_info' = [key_bytes |-> Zeros(EVP_HPKE_MAX_ENC_LENGTH), key_size |-> 0]
  /\ IF Len(recipient_public_key) = 0
     THEN EarlyReturn(InvalidArgumentError("No key was provided."))
     ELSE /\ pc' = "ctx_new"
          /\ UNCHANGED <<hpke, aead, hpke_sender_context, aead_response_context,
                         sender_hpke_info, result>>
  /\ UNCHANGED <<recipient_public_key, info, response_key, response_nonce, calls,
                 sealLog, openLog>>

\* SetUpBaseSender, lines 114-117.
HpkeCtxNew ==
  /\ pc = "ctx_new"
  /\ \E ok \in BOOLEAN :
       LET r == EVP_HPKE_CTX_new(ok) IN
       /\ calls' = Append(calls, [op |-> "EVP_HPKE_CTX_new", ok |-> r.ok])
       /\ IF r.ok
          THEN /\ hpke' = r.ctx
               /\ hpke_sender_context' = HPKE_H
               /\ pc' = "setup_sender"
               /\ UNCHANGED <<aead, aead_response_context, sender_hpke_info, result>>
          ELSE EarlyReturn(AbortedError("Unable to generate HPKE sender context"))
  /\ UNCHANGED <<recipient_public_key, info, encap_public_key_info, response_key,
                 response_nonce, sealLog, openLog>>

\* Mutant of SetupSender: the RequestContext is built around the HPKE context
\* as soon as it is set up, before the exports.
SetupSender_BuildsRequestContextFirst ==
  /\ pc = "setup_sender"
  /\ \E eph \in EphemeralPrivateKeys, fault \in BOOLEAN :
       LET r == EVP_HPKE_CTX_setup_sender(hpke, encap_public_key_info.key_bytes,
                                          Len(encap_public_key_info.key_bytes),
                                          recipient_public_key, info, eph, fault)
           resized == Resize(r.out_enc, r.out_enc_len)
       IN
       /\ calls' = Append(calls, [op |-> "EVP_HPKE_CTX_setup_sender", ok |-> r.ok])
       /\ IF r.ok
          THEN /\ hpke' = r.ctx
               /\ encap_public_key_info' = [key_bytes |-> resized, key_size |-> r.out_enc_len]
               /\ sender_hpke_info' =
                    [sender_hpke_info EXCEPT
                       !.encap_public_key = resized,
                       !.sender_request_context =
                          SenderRequestContextNew(hpke_sender_context)]
               /\ pc' = "export_key"
               /\ UNCHANGED <<aead, hpke_sender_context, aead_response_context, result>>
          ELSE /\ EarlyReturn(AbortedError("Unable to setup sender context."))
               /\ UNCHANGED encap_public_key_info
  /\ UNCHANGED <<recipient_public_key, info, response_key, response_nonce, sealLog, openLog>>

\* Mutant of SetupSender: the encapsulated key is not copied into the
\* SenderContext.
SetupSender_DropsEncapsulatedKey ==
  /\ pc = "setup_sender"
  /\ \E eph \in EphemeralPrivateKeys, fault \in BOOLEAN :
       LET r == EVP_HPKE_CTX_setup_sender(hpke, encap_public_key_info.key_bytes,
                                          Len(encap_public_key_info.key_bytes),
                                          recipient_public_key, info, eph, fault)
           resized == Resize(r.out_enc, r.out_enc_len)
       IN
       /\ calls' = Append(calls, [op |-> "EVP_HPKE_CTX_setup_sender", ok |-> r.ok])
       /\ IF r.ok
          THEN /\ hpke' = r.ctx
               /\ encap_public_key_info' = [key_bytes |-> resized, key_size |-> r.out_enc_len]
               /\ sender_hpke_info' = sender_hpke_info
               /\ pc' = "export_key"
               /\ UNCHANGED <<aead, hpke_sender_context, aead_response_context, result>>
          ELSE /\ EarlyReturn(AbortedError("Unable to setup sender context."))
               /\ UNCHANGED encap_public_key_info
  /\ UNCHANGED <<recipient_public_key, info, response_key, response_nonce, sealLog, openLog>>

\* Mutant of SetupSender: the key buffer is not cut to the used length.
SetupSender_NoResize ==
  /\ pc = "setup_sender"
  /\ \E eph \in EphemeralPrivateKeys, fault \in BOOLEAN :
       LET r == EVP_HPKE_CTX_setup_sender(hpke, encap_public_key_info.key_bytes,
                                          Len(encap_public_key_info.key_bytes),
                                          recipient_public_key, info, eph, fault)
       IN
       /\ calls' = Append(calls, [op |-> "EVP_HPKE_CTX_setup_sender", ok |-> r.ok])
       /\ IF r.ok
          THEN /\ hpke' = r.ctx
               /\ encap_public_key_info' = [key_bytes |-> r.out_enc, key_size |-> r.out_enc_len]
               /\ sender_hpke_info' = [sender_hpke_info EXCEPT !.encap_public_key = r.out_enc]
               /\ pc' = "export_key"
               /\ UNCHANGED <<aead, hpke_sender_context, aead_response_context, result>>
          ELSE /\ EarlyReturn(AbortedError("Unable to setup sender context."))
               /\ UNCHANGED encap_public_key_info
  /\ UNCHANGED <<recipient_public_key, info, response_key, response_nonce, sealLog, openLog>>

\* SetUpBaseSender, lines 119-135.
SetupSender ==
  /\ pc = "setup_sender"
  /\ \E eph \in EphemeralPrivateKeys, fault \in BOOLEAN :
       LET r == EVP_HPKE_CTX_setup_sender(hpke, encap_public_key_info.key_bytes,
                                          Len(encap_public_key_info.key_bytes),
                                          recipient_public_key, info, eph, fault)
           resized == Resize(r.out_enc, r.out_enc_len)
       IN
       /\ calls' = Append(calls, [op |-> "EVP_HPKE_CTX_setup_sender", ok |-> r.ok])
       /\ IF r.ok
          THEN /\ hpke' = r.ctx
               /\ encap_public_key_info' = [key_bytes |-> resized, key_size |-> r.out_enc_len]
               /\ sender_hpke_info' = [sender_hpke_info EXCEPT !.encap_public_key = resized]
               /\ pc' = "export_key"
               /\ UNCHANGED <<aead, hpke_sender_context, aead_response_context, result>>
          ELSE /\ EarlyReturn(AbortedError("Unable to setup sender context."))
               /\ UNCHANGED encap_public_key_info
  /\ UNCHANGED <<recipient_public_key, info, response_key, response_nonce, sealLog, openLog>>

\* Mutant of ExportKey: the result of the export is not checked.
ExportKey_IgnoresFailure ==
  /\ pc = "export_key"
  /\ \E fault \in BOOLEAN :
       LET r == EVP_HPKE_CTX_export(hpke, ZeroBytes(kAeadAlgorithmKeySizeBytes),
                                    kAeadAlgorithmKeySizeBytes, "response_key", fault)
       IN
       /\ calls' = Append(calls, [op |-> "EVP_HPKE_CTX_export:response_key", ok |-> r.ok])
       /\ hpke' = r.ctx
       /\ response_key' = [key_bytes |-> r.out, key_size |-> kAeadAlgorithmKeySizeBytes]
       /\ pc' = "aead_new"
       /\ UNCHANGED <<aead, hpke_sender_context, aead_response_context,
                      sender_hpke_info, result>>
  /\ UNCHANGED <<recipient_public_key, info, encap_public_key_info, response_nonce,
                 sealLog, openLog>>

\* SetUpBaseSender, lines 137-152.
ExportKey ==
  /\ pc = "export_key"
  /\ \E fault \in BOOLEAN :
       LET r == EVP_HPKE_CTX_export(hpke, ZeroBytes(kAeadAlgorithmKeySizeBytes),
                                    kAeadAlgorithmKeySizeBytes, "response_key", fault)
       IN
       /\ calls' = Append(calls, [op |-> "EVP_HPKE_CTX_export:response_key", ok |-> r.ok])
       /\ IF r.ok
          THEN /\ hpke' = r.ctx
               /\ response_key' = [key_bytes |-> r.out, key_size |-> kAeadAlgorithmKeySizeBytes]
               /\ pc' = "aead_new"
               /\ UNCHANGED <<aead, hpke_sender_context, aead_response_context,
                              sender_hpke_info, result>>
          ELSE /\ EarlyReturn(AbortedError("Unable to export client response key."))
               /\ UNCHANGED response_key
  /\ UNCHANGED <<recipient_public_key, info, encap_public_key_info, response_nonce,
                 sealLog, openLog>>

\* Mutant of AeadCtxNew: the null check is missing.
AeadCtxNew_NoNullCheck ==
  /\ pc = "aead_new"
  /\ \E ok \in BOOLEAN :
       LET r == EVP_AEAD_CTX_new(response_key.key_bytes, response_key.key_size, 0, ok) IN
       /\ calls' = Append(calls, [op |-> "EVP_AEAD_CTX_new", ok |-> r.ok])
       /\ aead' = r.ctx
       /\ aead_response_context' = IF r.ok THEN AEAD_H ELSE NULL
       /\ pc' = "export_nonce"
       /\ UNCHANGED <<hpke, hpke_sender_context, sender_hpke_info, result>>
  /\ UNCHANGED <<recipient_public_key, info, encap_public_key_info, response_key,
                 response_nonce, sealLog, openLog>>

\* SetUpBaseSender, lines 154-162.
AeadCtxNew ==
  /\ pc = "aead_new"
  /\ \E ok \in BOOLEAN :
       LET r == EVP_AEAD_CTX_new(response_key.key_bytes, response_key.key_size, 0, ok) IN
       /\ calls' = Append(calls, [op |-> "EVP_AEAD_CTX_new", ok |-> r.ok])
       /\ IF r.ok
          THEN /\ aead' = r.ctx
               /\ aead_response_context' = AEAD_H
               /\ pc' = "export_nonce"
               /\ UNCHANGED <<hpke, hpke_sender_context, sender_hpke_info, result>>
          ELSE EarlyReturn(AbortedError("Unable to generate AEAD response context."))
  /\ UNCHANGED <<recipient_public_key, info, encap_public_key_info, response_key,
                 response_nonce, sealLog, openLog>>

\* Mutant of ExportNonce: the nonce is exported under the key's label.
ExportNonce_WrongLabel ==
  /\ pc = "export_nonce"
  /\ \E fault \in BOOLEAN :
       LET r == EVP_HPKE_CTX_export(hpke, ZeroBytes(kAeadNonceSizeBytes),
                                    kAeadNonceSizeBytes, "response_key", fault)
       IN
       /\ calls' = Append(calls, [op |-> "EVP_HPKE_CTX_export:response_nonce", ok |-> r.ok])
       /\ IF r.ok
          THEN /\ hpke' = r.ctx
               /\ response_nonce' = r.out
               /\ pc' = "build"
               /\ UNCHANGED <<aead, hpke_sender_context, aead_response_context,
                              sender_hpke_info, result>>
          ELSE /\ EarlyReturn(AbortedError("Unable to export client response nonce."))
               /\ UNCHANGED response_nonce
  /\ UNCHANGED <<recipient_public_key, info, encap_public_key_info, response_key,
                 sealLog, openLog>>

\* SetUpBaseSender, lines 164-177.
ExportNonce ==
  /\ pc = "export_nonce"
  /\ \E fault \in BOOLEAN :
       LET r == EVP_HPKE_CTX_export(hpke, ZeroBytes(kAeadNonceSizeBytes),
                                    kAeadNonceSizeBytes, "response_nonce", fault)
       IN
       /\ calls' = Append(calls, [op |-> "EVP_HPKE_CTX_export:response_nonce", ok |-> r.ok])
       /\ IF r.ok
          THEN /\ hpke' = r.ctx
               /\ response_nonce' = r.out
               /\ pc' = "build"
               /\ UNCHANGED <<aead, hpke_sender_context, aead_response_context,
                              sender_hpke_info, result>>
          ELSE /\ EarlyReturn(AbortedError("Unable to export client response nonce."))
               /\ UNCHANGED response_nonce
  /\ UNCHANGED <<recipient_public_key, info, encap_public_key_info, response_key,
                 sealLog, openLog>>

\* Mutant of BuildAndReturn: the contexts are built from the raw pointers
\* (get()) and the locals keep theirs.
BuildAndReturn_KeepsLocals ==
  /\ pc = "build"
  /\ LET built == [sender_hpke_info EXCEPT
                     !.sender_request_context =
                        SenderRequestContextNew(hpke_sender_context),
                     !.sender_response_context =
                        SenderResponseContextNew(aead_response_context, response_nonce)]
     IN /\ result' = OkResult(built)
        /\ sender_hpke_info' = NoSenderContext
  /\ hpke_sender_context' = hpke_sender_context
  /\ aead_response_context' = aead_response_context
  /\ hpke' = hpke
  /\ aead' = aead
  /\ pc' = "done"
  /\ UNCHANGED <<recipient_public_key, info, encap_public_key_info, response_key,
                 response_nonce, calls, sealLog, openLog>>

\* SetUpBaseSender, lines 179-189: the two contexts take the handles over and
\* the SenderContext is returned; the emptied locals are destroyed.
BuildAndReturn ==
  /\ pc = "build"
  /\ LET built == [sender_hpke_info EXCEPT
                     !.sender_request_context =
                        SenderRequestContextNew(hpke_sender_context),
                     !.sender_response_context =
                        SenderResponseContextNew(aead_response_context, response_nonce)]
     IN /\ result' = OkResult(built)
        /\ sender_hpke_info' = NoSenderContext
  /\ hpke_sender_context' = NULL
  /\ aead_response_context' = NULL
  /\ hpke' = UniquePtrDestroy(hpke_sender_context', hpke)
  /\ aead' = UniquePtrDestroy(aead_response_context', aead)
  /\ pc' = "done"
  /\ UNCHANGED <<recipient_public_key, info, encap_public_key_info, response_key,
                 response_nonce, calls, sealLog, openLog>>

---------------------------------------------------------------------------
\* The contexts the caller holds after a successful SetUpBaseSender.

RequestContext == result.value.sender_request_context
ResponseContext == result.value.sender_response_context
CallsLeft == Len(sealLog) + Len(openLog) < MaxCalls

\* Mutant of SealCall: the seal runs on a copy of the context, so the owned
\* context keeps its sequence counter.
SealCall_StaleContext(ctx, plaintext, associated_data) ==
  LET max_out_len == EVP_HPKE_CTX_max_overhead(ctx) + Len(plaintext)
      ciphertext_bytes == Zeros(max_out_len)
      r == EVP_HPKE_CTX_seal(ctx, ciphertext_bytes, max_out_len, plaintext, associated_data)
  IN [ctx |-> ctx,
      ret |-> IF ~r.ok
              THEN ErrorResult(AbortedError("Failed to seal request"), <<>>)
              ELSE OkResult(Resize(r.out, r.out_len))]

\* Mutant of SealCall: plaintext and associated data are passed in each
\* other's place.
SealCall_SwapsArguments(ctx, plaintext, associated_data) ==
  LET max_out_len == EVP_HPKE_CTX_max_overhead(ctx) + Len(associated_data)
      ciphertext_bytes == Zeros(max_out_len)
      r == EVP_HPKE_CTX_seal(ctx, ciphertext_bytes, max_out_len, associated_data, plaintext)
  IN [ctx |-> r.ctx,
      ret |-> IF ~r.ok
              THEN ErrorResult(AbortedError("Failed to seal request"), <<>>)
              ELSE OkResult(Resize(r.out, r.out_len))]

\* Mutant of SealCall: the result of the seal primitive is not checked.
SealCall_IgnoresFailure(ctx, plaintext, associated_data) ==
  LET max_out_len == EVP_HPKE_CTX_max_overhead(ctx) + Len(plaintext)
      ciphertext_bytes == Zeros(max_out_len)
      r == EVP_HPKE_CTX_seal(ctx, ciphertext_bytes, max_out_len, plaintext, associated_data)
  IN [ctx |-> r.ctx, ret |-> OkResult(Resize(r.out, r.out_len))]

\* Mutant of SealCall: the buffer is cut to the plaintext's length instead of
\* the length the primitive reported.
SealCall_ResizesToPlaintext(ctx, plaintext, associated_data) ==
  LET max_out_len == EVP_HPKE_CTX_max_overhead(ctx) + Len(plaintext)
      ciphertext_bytes == Zeros(max_out_len)
      r == EVP_HPKE_CTX_seal(ctx, ciphertext_bytes, max_out_len, plaintext, associated_data)
  IN [ctx |-> r.ctx,
      ret |-> IF ~r.ok
              THEN ErrorResult(AbortedError("Failed to seal request"), <<>>)
              ELSE OkResult(Resize(r.out, Len(plaintext)))]

\* SenderRequestContext::Seal, lines 36-59, on the library object ctx.
SealCall(ctx, plaintext, associated_data) ==
  LET max_out_len == EVP_HPKE_CTX_max_overhead(ctx) + Len(plaintext)
      ciphertext_bytes == Zeros(max_out_len)
      r == EVP_HPKE_CTX_seal(ctx, ciphertext_bytes, max_out_len, plaintext, associated_data)
  IN [ctx |-> r.ctx,
      ret |-> IF ~r.ok
              THEN ErrorResult(AbortedError("Failed to seal request"), <<>>)
              ELSE OkResult(Resize(r.out, r.out_len))]

Seal ==
  /\ pc = "done"
  /\ RequestContext.alive
  /\ CallsLeft
  /\ \E plaintext \in Plaintexts, associated_data \in AssociatedData :
       LET r == SealCall(hpke, plaintext, associated_data) IN
       /\ hpke' = r.ctx
       /\ sealLog' = Append(sealLog, [plaintext |-> plaintext,
                                      associated_data |-> associated_data,
                                      seq |-> hpke.seq, ret |-> r.ret])
  /\ UNCHANGED <<pc, recipient_public_key, info, aead, hpke_sender_context,
                 aead_response_context, encap_public_key_info, response_key,
                 response_nonce, sender_hpke_info, calls, result, openLog>>

\* Mutant of OpenCall: the empty-ciphertext check is missing.
OpenCall_NoEmptyCheck(rc, ctx, ciphertext, associated_data) ==
  LET plaintext_bytes == Zeros(Len(ciphertext))
      r == EVP_AEAD_CTX_open(ctx, plaintext_bytes, Len(ciphertext),
                             rc.response_nonce_, rc.response_nonce_.len,
                             ciphertext, associated_data)
  IN [rc |-> rc, invoked |-> TRUE, nonce |-> rc.response_nonce_,
      ret |-> IF ~r.ok
              THEN ErrorResult(AbortedError("Unable to decrypt response message"), <<>>)
              ELSE OkResult(Resize(r.out, r.out_len))]

\* Mutant of OpenCall: the result of the AEAD open is not checked.
OpenCall_IgnoresFailure(rc, ctx, ciphertext, associated_data) ==
  IF Len(ciphertext) = 0
  THEN [rc |-> rc, invoked |-> FALSE, nonce |-> ZeroBytes(0),
        ret |-> ErrorResult(InvalidArgumentError("No ciphertext was provided."), <<>>)]
  ELSE LET plaintext_bytes == Zeros(Len(ciphertext))
           r == EVP_AEAD_CTX_open(ctx, plaintext_bytes, Len(ciphertext),
                                  rc.response_nonce_, rc.response_nonce_.len,
                                  ciphertext, associated_data)
       IN [rc |-> rc, invoked |-> TRUE, nonce |-> rc.response_nonce_,
           ret |-> OkResult(Resize(r.out, r.out_len))]

\* Mutant of OpenCall: the nonce is moved out of the context by the call.
OpenCall_MovesNonceOut(rc, ctx, ciphertext, associated_data) ==
  IF Len(ciphertext) = 0
  THEN [rc |-> rc, invoked |-> FALSE, nonce |-> ZeroBytes(0),
        ret |-> ErrorResult(InvalidArgumentError("No ciphertext was provided."), <<>>)]
  ELSE LET plaintext_bytes == Zeros(Len(ciphertext))
           r == EVP_AEAD_CTX_open(ctx, plaintext_bytes, Len(ciphertext),
                                  rc.response_nonce_, rc.response_nonce_.len,
                                  ciphertext, associated_data)
       IN [rc |-> [rc EXCEPT !.response_nonce_ = ZeroBytes(0)],
           invoked |-> TRUE, nonce |-> rc.response_nonce_,
           ret |-> IF ~r.ok
                   THEN ErrorResult(AbortedError("Unable to decrypt response message"), <<>>)
                   ELSE OkResult(Resize(r.out, r.out_len))]

\* Mutant of OpenCall: the nonce is advanced after each use, as a sequence
\* counter would be.
OpenCall_AdvancesNonce(rc, ctx, ciphertext, associated_data) ==
  IF Len(ciphertext) = 0
  THEN [rc |-> rc, invoked |-> FALSE, nonce |-> ZeroBytes(0),
        ret |-> ErrorResult(InvalidArgumentError("No ciphertext was provided."), <<>>)]
  ELSE LET plaintext_bytes == Zeros(Len(ciphertext))
           r == EVP_AEAD_CTX_open(ctx, plaintext_bytes, Len(ciphertext),
                                  rc.response_nonce_, rc.response_nonce_.len,
                                  ciphertext, associated_data)
       IN [rc |-> [rc EXCEPT !.response_nonce_.xor = @ + 1],
           invoked |-> TRUE, nonce |-> rc.response_nonce_,
           ret |-> IF ~r.ok
                   THEN ErrorResult(AbortedError("Unable to decrypt response message"), <<>>)
                   ELSE OkResult(Resize(r.out, r.out_len))]

\* SenderResponseContext::Open, lines 63-91, of the context rc on the library
\* object ctx: what it returns, whether and with which nonce the AEAD open
\* primitive was invoked, and the context after the call.
OpenCall(rc, ctx, ciphertext, associated_data) ==
  IF Len(ciphertext) = 0
  THEN [rc |-> rc, invoked |-> FALSE, nonce |-> ZeroBytes(0),
        ret |-> ErrorResult(InvalidArgumentError("No ciphertext was provided."), <<>>)]
  ELSE LET plaintext_bytes == Zeros(Len(ciphertext))
           r == EVP_AEAD_CTX_open(ctx, plaintext_bytes, Len(ciphertext),
                                  rc.response_nonce_, rc.response_nonce_.len,
                                  ciphertext, associated_data)
       IN [rc |-> rc, invoked |-> TRUE, nonce |-> rc.response_nonce_,
           ret |-> IF ~r.ok
                   THEN ErrorResult(AbortedError("Unable to decrypt response message"), <<>>)
                   ELSE OkResult(Resize(r.out, r.out_len))]

\* What a peer or an attacker may hand to Open: nothing, the sealing of a
\* response under the exported key and nonce, and that sealing damaged.
ResponseKey == Derived(hpke.secret, "response_key", kAeadAlgorithmKeySizeBytes)
ResponseNonce == Derived(hpke.secret, "response_nonce", kAeadNonceSizeBytes)
GoodResponse == AeadSeal(ResponseKey, ResponseNonce, <<5>>, <<>>)
OpenInputs ==
  { <<<<>>, <<>>>>, <<<<>>, <<9>>>>,
    <<GoodResponse, <<>>>>,
    <<GoodResponse, <<9>>>>,
    <<AeadSeal(ResponseKey, ResponseNonce, <<>>, <<9>>), <<9>>>>,
    <<AeadSeal(Derived(hpke.secret, "key", kAeadAlgorithmKeySizeBytes), ResponseNonce,
               <<5>>, <<>>), <<>>>>,
    <<AeadSeal(ResponseKey, HpkeNonce(hpke.secret, 0), <<5>>, <<>>), <<>>>>,
    <<SubSeq(GoodResponse, 1, Len(GoodResponse) - 1), <<>>>>,
    <<SubSeq(GoodResponse, Len(GoodResponse), Len(GoodResponse)), <<>>>> }

Open ==
  /\ pc = "done"
  /\ ResponseContext.alive
  /\ CallsLeft
  /\ \E in \in OpenInputs :
       LET r == OpenCall(ResponseContext, aead, in[1], in[2]) IN
       /\ result' = [result EXCEPT !.value.sender_response_context = r.rc]
       /\ openLog' = Append(openLog, [ciphertext |-> in[1], associated_data |-> in[2],
                                      invoked |-> r.invoked, nonce |-> r.nonce,
                                      ret |-> r.ret])
  /\ UNCHANGED <<pc, recipient_public_key, info, hpke, aead, hpke_sender_context,
                 aead_response_context, encap_public_key_info, response_key,
                 response_nonce, sender_hpke_info, calls, sealLog>>

\* SenderRequestContext::~SenderRequestContext, line 61, then the destructor
\* of the member hpke_context_.
RequestContextDtor(rc, ctx) ==
  LET released == rc.hpke_context_
      member == NULL
      freed == IF released = NULL THEN ctx ELSE LibraryFree(ctx)
  IN UniquePtrDestroy(member, freed)

\* Mutant of DestroyRequestContext: the destructor also frees the AEAD context
\* of the sibling ResponseContext.
DestroyRequestContext_FreesBoth ==
  /\ pc = "done"
  /\ RequestContext.alive
  /\ hpke' = RequestContextDtor(RequestContext, hpke)
  /\ aead' = LibraryFree(aead)
  /\ result' = [result EXCEPT !.value.sender_request_context = NoRequestContext]
  /\ UNCHANGED <<pc, recipient_public_key, info, hpke_sender_context,
                 aead_response_context, encap_public_key_info, response_key,
                 response_nonce, sender_hpke_info, calls, sealLog, openLog>>

DestroyRequestContext ==
  /\ pc = "done"
  /\ RequestContext.alive
  /\ hpke' = RequestContextDtor(RequestContext, hpke)
  /\ result' = [result EXCEPT !.value.sender_request_context = NoRequestContext]
  /\ UNCHANGED <<pc, recipient_public_key, info, aead, hpke_sender_context,
                 aead_response_context, encap_public_key_info, response_key,
                 response_nonce, sender_hpke_info, calls, sealLog, openLog>>

\* SenderResponseContext::~SenderResponseContext, lines 93-95, then the
\* destructor of the member aead_response_context_.
ResponseContextDtor(rc, ctx) ==
  LET released == rc.aead_response_context_
      member == NULL
      freed == IF released = NULL THEN ctx ELSE LibraryFree(ctx)
  IN UniquePtrDestroy(member, freed)

DestroyResponseContext ==
  /\ pc = "done"
  /\ ResponseContext.alive
  /\ aead' = ResponseContextDtor(ResponseContext, aead)
  /\ result' = [result EXCEPT !.value.sender_response_context = NoResponseContext]
  /\ UNCHANGED <<pc, recipient_public_key, info, hpke, hpke_sender_context,
                 aead_response_context, encap_public_key_info, response_key,
                 response_nonce, sender_hpke_info, calls, sealLog, openLog>>

Next ==
  \/ CheckKey
  \/ HpkeCtxNew
  \/ SetupSender
  \/ ExportKey
  \/ AeadCtxNew
  \/ ExportNonce
  \/ BuildAndReturn
  \/ Seal
  \/ Open
  \/ DestroyRequestContext
  \/ DestroyResponseContext

Spec == Init /\ [][Next]_vars

---------------------------------------------------------------------------
\* Properties.

SetupEnded == pc \in {"done", "crashed"}
AllDestroyed == pc = "done" /\ ~RequestContext.alive /\ ~ResponseContext.alive
ExportDone(label) ==
  \E i \in 1..Len(calls) : calls[i] = [op |-> "EVP_HPKE_CTX_export:" \o label, ok |-> TRUE]
FailedStep(op) == \E i \in 1..Len(calls) : calls[i] = [op |-> op, ok |-> FALSE]
AnyFailedStep == \E i \in 1..Len(calls) : ~calls[i].ok
SealOk(i) == sealLog[i].ret.code = "OK"
\* The nonce a ciphertext was sealed with, and the plaintext bytes it carries.
NonceOf(ct) == ct[Len(ct)].nonce
BodyOf(ct) == [i \in 1..(Len(ct) - TagLen) |-> ct[i].v]

\* C1: once SetUpBaseSender has returned and every object it produced has been
\* destroyed, each HPKE and AEAD handle obtained from the library has been
\* released through the library's free operation exactly once; no handle is
\* ever freed twice.
C1_EachHandleFreedExactlyOnce ==
  /\ hpke.frees <= 1
  /\ aead.frees <= 1
  /\ AllDestroyed =>
       /\ hpke.st # "none" => hpke.frees = 1
       /\ aead.st # "none" => aead.frees = 1

\* C2: no two successful Seal calls on one RequestContext use the same nonce,
\* each successful Seal advances the sequence counter by one, and two
\* successful seals never return the same ciphertext, also not for the same
\* plaintext and associated data.
C2_SealNeverReusesNonce ==
  /\ \A i, j \in 1..Len(sealLog) :
       (i < j /\ SealOk(i) /\ SealOk(j)) =>
          /\ NonceOf(sealLog[i].ret.value) # NonceOf(sealLog[j].ret.value)
          /\ sealLog[i].ret.value # sealLog[j].ret.value
  /\ hpke.seq = Cardinality({i \in 1..Len(sealLog) : SealOk(i)})
C2_Witness ==
  \E i, j \in 1..Len(sealLog) :
     /\ i < j /\ SealOk(i) /\ SealOk(j)
     /\ sealLog[i].plaintext = sealLog[j].plaintext
     /\ sealLog[i].associated_data = sealLog[j].associated_data

\* C3: the RequestContext exists, and so a Seal can have been performed, only
\* after both exports ("response_key" and "response_nonce") have succeeded,
\* and until the first Seal the sequence counter is at its initial value 0.
C3_ExportsBeforeAnySeal ==
  /\ (sender_hpke_info.sender_request_context.alive \/ RequestContext.alive
        \/ sealLog # <<>>) =>
       (ExportDone("response_key") /\ ExportDone("response_nonce"))
  /\ (hpke.st = "ready" /\ sealLog = <<>>) => hpke.seq = 0
C3_Witness ==
  /\ Len(sealLog) >= 1 /\ SealOk(1) /\ sealLog[1].seq = 0
  /\ ExportDone("response_key") /\ ExportDone("response_nonce")

C5_EmptyKeyIsInvalidArgument ==
  (Len(recipient_public_key) = 0 /\ pc # "start") =>
     (pc = "done" /\ result.code = "InvalidArgument" /\ ~result.has_value /\ calls = <<>>)
C5_Witness ==
  /\ Len(recipient_public_key) = 0 /\ info # <<>>
  /\ pc = "done" /\ result.code = "InvalidArgument"

\* C6: every Open called with an empty ciphertext returned InvalidArgument,
\* whatever the associated data, and did not invoke the AEAD open primitive.
C6_EmptyCiphertextIsInvalidArgument ==
  \A i \in 1..Len(openLog) :
     Len(openLog[i].ciphertext) = 0 =>
        (openLog[i].ret.code = "InvalidArgument" /\ ~openLog[i].invoked
           /\ ~openLog[i].ret.has_value)
C6_Witness ==
  \E i \in 1..Len(openLog) :
     /\ Len(openLog[i].ciphertext) = 0 /\ openLog[i].associated_data # <<>>
     /\ openLog[i].ret.code = "InvalidArgument"

\* A ciphertext is produced under the context's exported response key and
\* response nonce with associated data ad when it is the AEAD sealing of some
\* plaintext under them.
ProducedUnderContext(ct, ad) ==
  /\ Len(ct) >= TagLen
  /\ ct = AeadSeal(ResponseKey, ResponseNonce, BodyOf(ct), ad)

\* C7: every Open of a non-empty ciphertext that was not produced under the
\* context's exported response key and nonce with the supplied associated
\* data returned Aborted and no plaintext bytes.
C7_ForeignCiphertextIsAborted ==
  \A i \in 1..Len(openLog) :
     (Len(openLog[i].ciphertext) > 0
        /\ ~ProducedUnderContext(openLog[i].ciphertext, openLog[i].associated_data)) =>
        (openLog[i].ret.code = "Aborted" /\ ~openLog[i].ret.has_value
           /\ openLog[i].ret.value = <<>>)
C7_Witness ==
  \E i, j \in 1..Len(openLog) :
     /\ Len(openLog[i].ciphertext) > TagLen
     /\ ~ProducedUnderContext(openLog[i].ciphertext, openLog[i].associated_data)
     /\ openLog[i].ret.code = "Aborted"
     /\ Len(openLog[j].ciphertext) \in 1..(TagLen - 1)
     /\ openLog[j].ret.code = "Aborted"

\* The number of successful seals before the i-th call, and the private key
\* of the recipient whose public key the sender was given.
SuccessfulBefore(i) == Cardinality({k \in 1..(i - 1) : SealOk(k)})
MatchingPrivateKey == CHOOSE r \in RecipientPrivateKeys : Pub(r) = recipient_public_key

\* C8: the ciphertext of the i-th successful Seal(P, A), opened as the i-th
\* message by the recipient context set up from the returned encapsulated key,
\* the private key matching the recipient public key and the same info,
\* yields exactly P.
C8_RecipientRecoversPlaintext ==
  \A i \in 1..Len(sealLog) :
     SealOk(i) =>
        RecipientOpen(RecipientSecret(result.value.encap_public_key, MatchingPrivateKey, info),
                      SuccessfulBefore(i), sealLog[i].ret.value,
                      sealLog[i].associated_data)
          = OkResult(sealLog[i].plaintext)
C8_Witness ==
  /\ Len(sealLog) >= 2 /\ SealOk(1) /\ SealOk(2)
  /\ sealLog[2].plaintext # <<>> /\ sealLog[2].associated_data # <<>>
  /\ info # <<>>

\* Open calls with the same failing input returned the same error; a step that
\* is a failed Open changes neither the ResponseContext nor its AEAD context.
C9_SameFailure ==
  \A i, j \in 1..Len(openLog) :
     (/\ openLog[i].ciphertext = openLog[j].ciphertext
      /\ openLog[i].associated_data = openLog[j].associated_data
      /\ openLog[i].ret.code # "OK") => openLog[j].ret = openLog[i].ret
C9_FailedOpenChangesNothing ==
  (Len(openLog') = Len(openLog) + 1 /\ openLog'[Len(openLog')].ret.code # "OK") =>
     (ResponseContext' = ResponseContext /\ aead' = aead)

\* C9: Open calls with the same invalid ciphertext and associated data all
\* return the same error, and an Open that fails leaves the ResponseContext
\* (its AEAD context and its nonce) as it was.
C9_OpenFailureIsIdempotent == [](C9_SameFailure) /\ [][C9_FailedOpenChangesNothing]_vars
C9_Witness ==
  /\ Len(openLog) >= 2
  /\ openLog[1].ciphertext = openLog[2].ciphertext
  /\ openLog[1].associated_data = openLog[2].associated_data
  /\ openLog[1].invoked /\ openLog[1].ret.code = "Aborted"
  /\ openLog[2].ret.code = "Aborted"

\* C10: every Open that reached the AEAD open primitive passed it the 12-byte
\* value exported with label "response_nonce" at construction, and the
\* ResponseContext keeps holding that value: a second Open uses it again.
C10_OpenAlwaysUsesExportedNonce ==
  /\ \A i \in 1..Len(openLog) :
        openLog[i].invoked =>
           (openLog[i].nonce = ResponseNonce /\ openLog[i].nonce.len = kAeadNonceSizeBytes)
  /\ ResponseContext.alive => ResponseContext.response_nonce_ = ResponseNonce
C10_Witness ==
  /\ Len(openLog) >= 2
  /\ openLog[1].ret.code = "OK" /\ openLog[2].ret.code = "OK"
  /\ openLog[1].nonce = openLog[2].nonce

\* C11: a Seal whose primitive failed, as it does once the sequence counter is
\* exhausted, returned Aborted and no ciphertext bytes; the counter never
\* passes its limit nor goes back: successful seals carry strictly increasing
\* sequence numbers.
C11_SealFailureIsAborted ==
  /\ \A i \in 1..Len(sealLog) :
        /\ sealLog[i].seq = SeqMax => ~SealOk(i)
        /\ ~SealOk(i) =>
             (sealLog[i].ret.code = "Aborted" /\ ~sealLog[i].ret.has_value
                /\ sealLog[i].ret.value = <<>>)
  /\ hpke.seq <= SeqMax
  /\ \A i, j \in 1..Len(sealLog) :
        (i < j /\ SealOk(j)) =>
           (SealOk(i) /\ NonceOf(sealLog[i].ret.value).xor < NonceOf(sealLog[j].ret.value).xor)
C11_Witness ==
  \E i \in 1..Len(sealLog) :
     /\ sealLog[i].seq = SeqMax
     /\ sealLog[i].ret.code = "Aborted"
     /\ hpke.seq = SeqMax

\* C12: every successful Seal(P, A) returned a ciphertext of exactly len(P)
\* plus the context's per-message overhead bytes, which is the length the
\* primitive wrote and never more than the allocated len(P) + max overhead.
C12_CiphertextLength ==
  \A i \in 1..Len(sealLog) :
     SealOk(i) =>
        /\ Len(sealLog[i].ret.value) = Len(sealLog[i].plaintext) + TagLen
        /\ Len(sealLog[i].ret.value)
             <= Len(sealLog[i].plaintext) + EVP_HPKE_CTX_max_overhead(hpke)
        /\ sealLog[i].ret.value =
             AeadSeal(HpkeKey(hpke.secret), NonceOf(sealLog[i].ret.value),
                      sealLog[i].plaintext, sealLog[i].associated_data)
C12_Witness ==
  \E i, j \in 1..Len(sealLog) :
     /\ SealOk(i) /\ sealLog[i].plaintext = <<>> /\ Len(sealLog[i].ret.value) = TagLen
     /\ SealOk(j) /\ sealLog[j].plaintext # <<>> /\ sealLog[j].associated_data # <<>>
     /\ Len(sealLog[j].ret.value) = Len(sealLog[j].plaintext) + TagLen

\* A step is SetUpBaseSender returning, a Seal, an Open, or the destruction of
\* one of the two contexts.
ReturnsStep == pc = "build" /\ pc' = "done"
SealStep == Len(sealLog') = Len(sealLog) + 1
OpenStep == Len(openLog') = Len(openLog) + 1
DestroysRequestContext == RequestContext.alive /\ ~RequestContext'.alive
DestroysResponseContext == ResponseContext.alive /\ ~ResponseContext'.alive

\* When SetUpBaseSender has returned after a call with a non-empty key in
\* which no primitive step failed, it returned OK with a non-empty
\* encapsulated public key; the step that returns hands over a live
\* RequestContext and a live ResponseContext.
C13_ReturnedOk ==
  (pc = "done" /\ Len(recipient_public_key) > 0 /\ ~AnyFailedStep) =>
     /\ ValidPublicKey(recipient_public_key)
     /\ result.code = "OK" /\ result.has_value
     /\ Len(result.value.encap_public_key) > 0
C13_ReturnsBothContexts ==
  ReturnsStep =>
     /\ RequestContext'.alive /\ RequestContext'.hpke_context_ # NULL
     /\ ResponseContext'.alive /\ ResponseContext'.aead_response_context_ # NULL
     /\ hpke'.st = "ready" /\ aead'.st = "live"

\* C13: for a valid recipient public key and any info, when no primitive step
\* fails, SetUpBaseSender succeeds and returns a SenderContext with a
\* non-empty encapsulated_public_key, a non-null RequestContext and a non-null
\* ResponseContext.
C13_SetupSucceeds == [](C13_ReturnedOk) /\ [][C13_ReturnsBothContexts]_vars
C13_Witness ==
  /\ pc = "done" /\ ~AnyFailedStep /\ Len(calls) = 5 /\ info # <<>>
  /\ result.code = "OK" /\ Len(result.value.encap_public_key) > 0
  /\ RequestContext.alive /\ ResponseContext.alive

\* A context the caller holds has a live handle, and the steps on one context
\* leave the other context and its library object as they were.
C14_HeldContextIsValid ==
  /\ RequestContext.alive => (hpke.st = "ready" /\ hpke.frees = 0 /\ hpke.deletes = 0)
  /\ ResponseContext.alive => (aead.st = "live" /\ aead.frees = 0 /\ aead.deletes = 0)
C14_Frame ==
  /\ (SealStep \/ DestroysRequestContext) =>
        (aead' = aead /\ ResponseContext' = ResponseContext)
  /\ (OpenStep \/ DestroysResponseContext) =>
        (hpke' = hpke /\ RequestContext' = RequestContext)
  /\ DestroysRequestContext => hpke'.frees = hpke.frees + 1
  /\ DestroysResponseContext => aead'.frees = aead.frees + 1

\* C14: after construction the two contexts are independent: Seal changes no
\* ResponseContext state, Open changes no RequestContext state, and destroying
\* either context releases only its own handle and leaves the other valid.
C14_ContextsAreIndependent == [](C14_HeldContextIsValid) /\ [][C14_Frame]_vars
C14_Witness ==
  /\ ~RequestContext.alive /\ hpke.frees = 1
  /\ ResponseContext.alive /\ aead.st = "live"
  /\ Len(sealLog) >= 1 /\ SealOk(1)
  /\ Len(openLog) >= 1 /\ openLog[Len(openLog)].ret.code = "OK"

\* The owners holding a handle: the local of SetUpBaseSender, the context in
\* the SenderContext under construction, the context the caller holds.
Holders == {"local", "building", "context"}
HpkeHeldBy(o) ==
  CASE o = "local" -> hpke_sender_context
    [] o = "building" -> sender_hpke_info.sender_request_context.hpke_context_
    [] o = "context" -> RequestContext.hpke_context_
AeadHeldBy(o) ==
  CASE o = "local" -> aead_response_context
    [] o = "building" -> sender_hpke_info.sender_response_context.aead_response_context_
    [] o = "context" -> ResponseContext.aead_response_context_
HpkeOwners == {o \in Holders : HpkeHeldBy(o) = HPKE_H}
AeadOwners == {o \in Holders : AeadHeldBy(o) = AEAD_H}

\* C15: each raw handle has at most one owner: while SetUpBaseSender runs, a
\* live handle is owned by the local only; once the contexts are built the
\* locals are empty and the handle is owned by its context only.
C15_SingleOwner ==
  /\ Cardinality(HpkeOwners) <= 1
  /\ Cardinality(AeadOwners) <= 1
  /\ hpke.st \in {"new", "ready"} =>
        HpkeOwners = (IF pc = "done" THEN {"context"} ELSE {"local"})
  /\ aead.st = "live" =>
        AeadOwners = (IF pc = "done" THEN {"context"} ELSE {"local"})
  /\ pc = "done" => (hpke_sender_context = NULL /\ aead_response_context = NULL)
C15_Witness ==
  /\ pc = "done"
  /\ HpkeOwners = {"context"} /\ AeadOwners = {"context"}
  /\ hpke_sender_context = NULL /\ aead_response_context = NULL

\* The primitive steps of SetUpBaseSender in their order, and the message of
\* the error each one's failure is reported with.
StepOrder ==
  << "EVP_HPKE_CTX_new", "EVP_HPKE_CTX_setup_sender", "EVP_HPKE_CTX_export:response_key",
     "EVP_AEAD_CTX_new", "EVP_HPKE_CTX_export:response_nonce" >>
StepMessage ==
  << "Unable to generate HPKE sender context", "Unable to setup sender context.",
     "Unable to export client response key.", "Unable to generate AEAD response context.",
     "Unable to export client response nonce." >>

C17_EncapsulatedKeyIsUsedPrefix ==
  (pc = "done" /\ result.code = "OK") =>
     /\ Len(result.value.encap_public_key) = encap_public_key_info.key_size
     /\ encap_public_key_info.key_size = X25519_PUBLIC_VALUE_LEN
     /\ encap_public_key_info.key_size <= EVP_HPKE_MAX_ENC_LENGTH
     /\ \E eph \in EphemeralPrivateKeys :
          /\ result.value.encap_public_key = Pub(eph)
          /\ eph \in hpke.secret.dh
C17_Witness ==
  /\ pc = "done" /\ result.code = "OK"
  /\ Len(result.value.encap_public_key) = encap_public_key_info.key_size
  /\ Len(result.value.encap_public_key) < EVP_HPKE_MAX_ENC_LENGTH

\* C18: a ciphertext that is the AEAD sealing of P under the key exported with
\* label "response_key", the nonce exported with label "response_nonce" and
\* associated data A is opened by Open(ciphertext, A) to exactly P; the AEAD
\* context's key and the stored nonce are those two exports of the HPKE
\* context the RequestContext owns.
C18_ResponseRoundTrip ==
  /\ \A i \in 1..Len(openLog) :
        ProducedUnderContext(openLog[i].ciphertext, openLog[i].associated_data) =>
           openLog[i].ret = OkResult(BodyOf(openLog[i].ciphertext))
  /\ ResponseContext.alive =>
        /\ aead.key = Derived(hpke.secret, "response_key", kAeadAlgorithmKeySizeBytes)
        /\ ResponseContext.response_nonce_ =
             Derived(hpke.secret, "response_nonce", kAeadNonceSizeBytes)
        /\ {"response_key", "response_nonce"} \subseteq hpke.exports
C18_Witness ==
  \E i, j \in 1..Len(openLog) :
     /\ openLog[i].ciphertext = AeadSeal(ResponseKey, ResponseNonce, <<5>>, <<>>)
     /\ openLog[i].associated_data = <<>>
     /\ openLog[i].ret = OkResult(<<5>>)
     /\ openLog[j].ciphertext = AeadSeal(ResponseKey, ResponseNonce, <<>>, <<9>>)
     /\ openLog[j].associated_data = <<9>>
     /\ openLog[j].ret = OkResult(<<>>)

====
